---- MODULE Spec2Model ----
(***************************************************************************)
(* RingBuffer of zipline/lib/ringbuffer.py: a numpy array of fixed shape   *)
(* and dtype, a capacity and a write index, with push, fill, len and the   *)
(* eight reductions forwarded to the array.                                *)
(*                                                                         *)
(* Numbers are held exactly, as integer numerators over Den: the number x  *)
(* is the integer x * Den, so that 1.5 is Den + 1 with Den = 2.  A value   *)
(* a caller passes is a record: Num(h) for the number h / Den, Str for a   *)
(* non-numeric string.  A pushed element is a scalar or a Python list.     *)
(* The array is a function from the axis-0 indices 0 .. c-1 to rows; a row *)
(* is the sequence of the slot's payload components (one component for a   *)
(* one-dimensional buffer).                                                *)
(*                                                                         *)
(* Returns of zipline/finance/metrics/simple.py (ReturnsSpec) and          *)
(* ExplodingObject of zipline/utils/exploding_object.py (ExplodingSpec)    *)
(* are modelled beside it, each under a specification of its own.          *)
(***************************************************************************)
EXTENDS Integers, Sequences, FiniteSets, TLC

\* Bounds of the model.
MaxPushes == 3
MaxCapacity == 2
MaxDays == 2
MaxObjects == 2

\* Denominator of the exact number representation.
Den == 2

\* The docstring's examples (ringbuffer.py lines 25-53).
DocCapacity == 5
DocWidth == 2
DocRange == 5
DocStep == 10

VARIABLES
    caller,     \* the calling program: "any" caller, or one of the docstring examples
    alive,      \* TRUE once __init__ has returned normally
    ctor,       \* the arguments __init__ was called with, for the live object
    dtype,      \* self._buffer.dtype
    shape,      \* self._buffer.shape
    _buffer,    \* self._buffer: axis-0 index -> row
    _capacity,  \* self._capacity
    _ix,        \* self._ix
    last,       \* the last call: operation, arguments, exception raised, value returned
    npushes,    \* number of push calls that returned normally since __init__
    hist,       \* the last min(n, capacity) elements pushed since __init__ or the last fill
    filled,     \* TRUE once fill has returned normally since __init__
    reset_value,\* the value of the last fill that returned (of __init__ before that),
                \* kept as long as a slot has not been pushed to since
    fill_ix,    \* self._ix when fill last returned normally (when __init__ did, before that)
    nsame       \* number of latest pushes in a row (counted up to capacity) that each
                \* wrote what the slot held

\* Returns of zipline/finance/metrics/simple.py
VARIABLES
    metric_alive,             \* TRUE once Returns() has returned
    _daily_returns,           \* self._daily_returns
    _benchmark_returns,       \* self._benchmark_returns
    _previous_total_returns,  \* self._previous_total_returns
    daily_returns,            \* self.daily_returns
    benchmark_returns,        \* self.benchmark_returns
    packet,                   \* the packet of the last end_of_minute or end_of_day call
    metric_last               \* the last call: method, arguments, reads of the ledger,
                              \* exception raised

\* ExplodingObject of zipline/utils/exploding_object.py
VARIABLES
    objects,    \* the ExplodingObjects constructed: the instance dictionary of each
    attr_last   \* the last attribute access: object, attribute, exception or value

rbvars == <<caller, alive, ctor, dtype, shape, _buffer, _capacity, _ix, last, npushes,
            hist, filled, reset_value, fill_ix, nsame>>
metricvars == <<metric_alive, _daily_returns, _benchmark_returns, _previous_total_returns,
                daily_returns, benchmark_returns, packet, metric_last>>
explodingvars == <<objects, attr_last>>

vars == <<rbvars, metricvars, explodingvars>>

---------------------------------------------------------------------------
\* Values a caller can pass.

Num(h) == [t |-> "num", v |-> h]
Str == [t |-> "str", v |-> 0]
Scalar(x) == [nd |-> 0, xs |-> <<x>>]
List(xs) == [nd |-> 1, xs |-> xs]
NoArg == [nd |-> 0, xs |-> <<>>]

IntShape(n) == [int |-> TRUE, dims |-> <<n>>]
TupleShape(ds) == [int |-> FALSE, dims |-> ds]
NoCtor == [shape |-> TupleShape(<<>>), fill_value |-> Str, dtype |-> ""]

AxisNone == <<>>
Axis(k) == <<k>>

\* What the unconstrained caller passes.
PyScalars == {Num(0), Num(Den), Num(Den + 1), Str}
PyLists == {<<>>, <<Num(Den + 1)>>, <<Num(0), Num(Den + 1)>>, <<Num(Den + 1), Str>>,
            <<Str, Num(0)>>, <<Num(0), Num(0), Num(Den)>>}
Elements == {Scalar(x) : x \in PyScalars} \cup {List(xs) : xs \in PyLists}
FillValues == {Num(0), Num(Den + 1), Str}
Dtypes == {"i8", "f8"}
Shapes == {IntShape(n) : n \in -1 .. MaxCapacity}
            \cup {TupleShape(<<>>), TupleShape(<<0, 2>>), TupleShape(<<2, 2>>),
                  TupleShape(<<2, -1>>)}
Axes == {AxisNone, Axis(0), Axis(1), Axis(-1)}
Reductions == {"all", "any", "max", "mean", "min", "prod", "std", "sum"}

\* What the docstring's examples pass.
DocElement(cl, n) ==
    IF cl = "doctest1d" THEN Scalar(Num(n * Den))
    ELSE List(<<Num(DocStep * n * Den), Num((DocStep * n + 1) * Den)>>)
DocShape(cl) ==
    IF cl = "doctest1d" THEN IntShape(DocCapacity)
    ELSE TupleShape(<<DocCapacity, DocWidth>>)
DocPushes(cl) == IF cl = "doctest1d" THEN DocRange + 1 ELSE DocRange
DocReductions == {"sum", "mean", "min", "max"}

---------------------------------------------------------------------------
\* numpy: conversion to the array's dtype, np.full, item assignment.

\* Conversion to int64 that rounds a fraction up.
Cast_rounds_up(h, dt) ==
    IF dt = "i8" THEN ((h + Den - 1) \div Den) * Den ELSE h

\* float -> int64 truncates toward zero; float64 holds every number of the model.
Cast(h, dt) ==
    IF dt = "i8"
    THEN IF h >= 0 THEN (h \div Den) * Den ELSE -(((-h) \div Den) * Den)
    ELSE h

PayloadLen(shp) == IF Len(shp) = 1 THEN 1 ELSE shp[2]

Size(shp) == shp[1] * PayloadLen(shp)

Constant(shp, h) == [i \in 0 .. shp[1] - 1 |-> [j \in 1 .. PayloadLen(shp) |-> h]]

\* np.zeros in the place of np.full: the fill value is not used.
NpFull_zeros(sh, fill_value, dt) ==
    IF (\E k \in 1 .. Len(sh.dims) : sh.dims[k] < 0) \/ fill_value.t # "num"
    THEN {[exc |-> "ValueError", shape |-> <<>>, buf |-> Constant(<<0>>, 0)]}
    ELSE IF Len(sh.dims) = 0
    THEN {[exc |-> "IndexError", shape |-> <<>>, buf |-> Constant(<<0>>, 0)]}
    ELSE {[exc |-> "", shape |-> sh.dims, buf |-> Constant(sh.dims, 0)]}

\* np.full(shape, fill_value, dtype), then self._buffer.shape[0].
\* The set of outcomes: an exception, or the array.
NpFull(sh, fill_value, dt) ==
    LET none == Constant(<<0>>, 0)
        raise(e) == [exc |-> e, shape |-> <<>>, buf |-> none]
        made == [exc |-> "", shape |-> sh.dims,
                 buf |-> Constant(sh.dims, Cast(fill_value.v, dt))]
    IN  IF \E k \in 1 .. Len(sh.dims) : sh.dims[k] < 0
        THEN {raise("ValueError")}
        ELSE IF Len(sh.dims) = 0
        \* a zero-dimensional array holds one number; its shape has no component 0
        THEN {raise(IF fill_value.t = "num" THEN "IndexError" ELSE "ValueError")}
        ELSE IF fill_value.t = "num"
        THEN {made}
        ELSE IF Size(sh.dims) = 0
        \* nothing to convert in an empty array: whether the string is looked at
        \* depends on the numpy build
        THEN {raise("ValueError"), [made EXCEPT !.buf = Constant(sh.dims, 0)]}
        ELSE {raise("ValueError")}

\* The index of the first string of a list, or 0.
FirstStr(xs) ==
    IF \E k \in 1 .. Len(xs) : xs[k].t = "str"
    THEN CHOOSE k \in 1 .. Len(xs) :
            xs[k].t = "str" /\ \A l \in 1 .. k - 1 : xs[l].t = "num"
    ELSE 0

\* self._buffer[ix] = element.  The set of outcomes: the exception raised ("" for
\* none) and the array afterwards.
SetItem(buf, shp, dt, ix, element) ==
    LET m == PayloadLen(shp)
        xs == element.xs
        L == Len(xs)
        bad == FirstStr(xs)
        ok(row) == [exc |-> "", buf |-> [buf EXCEPT ![ix] = row]]
        raise(e) == [exc |-> e, buf |-> buf]
    IN  IF ix >= shp[1]
        THEN {raise("IndexError")}
        ELSE IF element.nd = 0
        THEN \* a scalar is converted, and broadcast over the payload
             IF xs[1].t = "num"
             THEN {ok([j \in 1 .. m |-> Cast(xs[1].v, dt)])}
             ELSE {raise("ValueError")}
        ELSE IF Len(shp) = 1
        THEN \* a list into a scalar slot: "setting an array element with a sequence"
             {raise("ValueError")}
        ELSE IF L = m
        THEN \* converted component by component: a build that converts in place has
             \* written the components before the first string when it raises
             IF bad = 0
             THEN {ok([j \in 1 .. m |-> Cast(xs[j].v, dt)])}
             ELSE {raise("ValueError"),
                   [exc |-> "ValueError",
                    buf |-> [buf EXCEPT ![ix] =
                               [j \in 1 .. m |-> IF j < bad THEN Cast(xs[j].v, dt)
                                                  ELSE buf[ix][j]]]]}
        ELSE IF L = 1 /\ bad = 0
        THEN {ok([j \in 1 .. m |-> Cast(xs[1].v, dt)])}
        ELSE {raise("ValueError")}

\* self._buffer[:] = value that stores 0 for a string.
SetAll_str_is_zero(buf, shp, dt, value) ==
    {[exc |-> "", buf |-> Constant(shp, IF value.t = "num" THEN Cast(value.v, dt) ELSE 0)]}

\* self._buffer[:] = value, for a scalar value.
SetAll(buf, shp, dt, value) ==
    IF value.t = "num"
    THEN {[exc |-> "", buf |-> Constant(shp, Cast(value.v, dt))]}
    ELSE IF Size(shp) = 0
    THEN {[exc |-> "", buf |-> buf], [exc |-> "ValueError", buf |-> buf]}
    ELSE {[exc |-> "ValueError", buf |-> buf]}

---------------------------------------------------------------------------
\* numpy: the reductions.  A result is val[k] / den per component; den = 0 is nan.

RECURSIVE SeqSum(_)
SeqSum(s) == IF s = <<>> THEN 0 ELSE s[1] + SeqSum(Tail(s))

RECURSIVE SeqProd(_)
SeqProd(s) == IF s = <<>> THEN 1 ELSE s[1] * SeqProd(Tail(s))

RECURSIVE Pow(_, _)
Pow(b, n) == IF n = 0 THEN 1 ELSE b * Pow(b, n - 1)

SeqMax(s) == CHOOSE x \in {s[k] : k \in 1 .. Len(s)} : \A k \in 1 .. Len(s) : s[k] <= x
SeqMin(s) == CHOOSE x \in {s[k] : k \in 1 .. Len(s)} : \A k \in 1 .. Len(s) : x <= s[k]

\* The stored values of the slots before the write index only.
Flat_up_to_ix(buf, shp) ==
    LET m == PayloadLen(shp)
    IN  [k \in 1 .. _ix * m |-> buf[(k - 1) \div m][((k - 1) % m) + 1]]

\* The stored values in C order, whatever the write index.
Flat(buf, shp) ==
    LET m == PayloadLen(shp)
    IN  [k \in 1 .. Size(shp) |-> buf[(k - 1) \div m][((k - 1) % m) + 1]]

\* Component j of the slots but the first.
Column_from_1(buf, shp, j) == [k \in 1 .. shp[1] - 1 |-> buf[k][j]]

Column(buf, shp, j) == [k \in 1 .. shp[1] |-> buf[k - 1][j]]

\* One reduction of a sequence of numbers: <<exception, numerator, denominator>>.
Reduce1(name, s) ==
    LET n == Len(s)
        sq == [k \in 1 .. n |-> s[k] * s[k]]
    IN  CASE name = "sum"  -> <<"", SeqSum(s), Den>>
          [] name = "prod" -> <<"", SeqProd(s), Pow(Den, n)>>
          [] name = "mean" -> <<"", SeqSum(s), Den * n>>
          \* std is the square root of this population variance
          [] name = "std"  -> <<"", n * SeqSum(sq) - SeqSum(s) * SeqSum(s),
                                (Den * n) * (Den * n)>>
          [] name = "max"  -> IF n = 0 THEN <<"ValueError", 0, 1>>
                              ELSE <<"", SeqMax(s), Den>>
          [] name = "min"  -> IF n = 0 THEN <<"ValueError", 0, 1>>
                              ELSE <<"", SeqMin(s), Den>>
          [] name = "all"  -> <<"", IF \A k \in 1 .. n : s[k] # 0 THEN 1 ELSE 0, 1>>
          [] name = "any"  -> <<"", IF \E k \in 1 .. n : s[k] # 0 THEN 1 ELSE 0, 1>>

\* getattr(self._buffer, name)(axis) for axis None or 0.
NdarrayReduce(name, buf, shp, axis) ==
    IF axis = AxisNone \/ Len(shp) = 1
    THEN LET r == Reduce1(name, Flat(buf, shp))
         IN  [exc |-> r[1], scalar |-> TRUE, val |-> <<r[2]>>, den |-> r[3]]
    ELSE LET r == [j \in 1 .. shp[2] |-> Reduce1(name, Column(buf, shp, j))]
         IN  [exc |-> IF shp[2] = 0 THEN "" ELSE r[1][1], scalar |-> FALSE,
              val |-> [j \in 1 .. shp[2] |-> r[j][2]],
              den |-> IF shp[2] = 0 THEN 1 ELSE r[1][3]]

\* method(self, axis) that accepts every axis the array has.
method_any_axis_of_array(name, buf, shp, axis) ==
    IF axis # AxisNone /\ (axis[1] < 0 \/ axis[1] >= Len(shp))
    THEN [exc |-> "ValueError: cannot perform reduction along non-primary axis",
          scalar |-> TRUE, val |-> <<>>, den |-> 1]
    ELSE NdarrayReduce(name, buf, shp, axis)

\* method(self, axis): the axis check, then the forwarded call.
method(name, buf, shp, axis) ==
    IF axis \notin {AxisNone, Axis(0)}
    THEN [exc |-> "ValueError: cannot perform reduction along non-primary axis",
          scalar |-> TRUE, val |-> <<>>, den |-> 1]
    ELSE NdarrayReduce(name, buf, shp, axis)

---------------------------------------------------------------------------
\* The Returns metric: timestamps, numbers, series, packets.

\* A timestamp is <<day, minute of the day>>; a session is the midnight of a day.
Timestamp(d, m) == <<d, m>>
Days == 1 .. MaxDays
Minutes == {0, 1}
Sessions == {Timestamp(d, 0) : d \in Days}

\* dt.normalize(): the midnight of the day of dt.
Normalize(dt) == Timestamp(dt[1], 0)

\* None, nan, and the number n / d (d = 0: a division by zero of numpy floats).
NoneValue == [none |-> TRUE, nan |-> FALSE, num |-> 0, den |-> 1]
NaN == [none |-> FALSE, nan |-> TRUE, num |-> 0, den |-> 1]
Ratio(n, d) == [none |-> FALSE, nan |-> FALSE, num |-> n, den |-> d]

\* None in the place of a pd.Series, and the series that is v at every label of index.
NoSeries == [none |-> TRUE, data |-> [t \in {} |-> NaN]]
Series(v, index) == [none |-> FALSE, data |-> [t \in index |-> v]]

\* benchmark_source.get_range(first_session, last_session), for a benchmark that
\* returns b / Den every session.
get_range(b, first_session, last_session) ==
    Series(Ratio(b, Den),
           {t \in Sessions : first_session[1] <= t[1] /\ t[1] <= last_session[1]})

\* What the simulation passes: ledger.portfolio.returns and the benchmark's returns
\* as numerators over Den, the time of the step.
LedgerReturns == {-1, 0, 1, Den}
BenchmarkReturns == {0, 1}
StepTimes == {Timestamp(d, m) : d \in Days, m \in Minutes}

\* The packet the simulation passes, before the metric's fields are set.
NewPacket ==
    [minute_perf |-> [returns |-> NoneValue],
     daily_perf |-> [returns |-> NoneValue],
     cumulative_perf |-> [returns |-> NoneValue]]

MetricCall(op, first_session, last_session, returns, dt, reads, exc) ==
    [op |-> op, first_session |-> first_session, last_session |-> last_session,
     returns |-> returns, dt |-> dt, reads |-> reads, exc |-> exc]

NoTime == Timestamp(0, 0)

MetricInit ==
    /\ metric_alive = FALSE
    /\ _daily_returns = NoSeries
    /\ _benchmark_returns = NoSeries
    /\ _previous_total_returns = 0
    /\ daily_returns = NoSeries
    /\ benchmark_returns = NoSeries
    /\ packet = NewPacket
    /\ metric_last = MetricCall("", NoTime, NoTime, 0, NoTime, 0, "")

---------------------------------------------------------------------------
\* ExplodingObject: names, attributes, messages.

ObjectNames == {"benchmark", "ledger", "x"}
AttrNames == {"returns", "foo", "_name", "__init__", "__getattr__", "__doc__",
              "__class__"}

\* The attributes the class body defines (lines 1-24), and those of object.
ClassAttrs == {"__init__", "__getattr__", "__doc__"}
ObjectAttrs == {"__class__"}

\* '%r' of a str: the string in quotes.
Repr(str) == <<"'", str, "'">>

AttrReturned(value) == [exc |-> "", msg |-> <<>>, value |-> value]
AttrRaised(e, msg) == [exc |-> e, msg |-> msg, value |-> <<>>]
AttrAccess(i, attr, r) ==
    [obj |-> i, attr |-> attr, exc |-> r.exc, msg |-> r.msg, value |-> r.value]

ExplodingInit ==
    /\ objects = <<>>
    /\ attr_last = AttrAccess(0, "", AttrReturned(<<>>))

---------------------------------------------------------------------------
\* The RingBuffer.

NoResult == [exc |-> "", scalar |-> TRUE, val |-> <<>>, den |-> 1]
Raised(e) == [NoResult EXCEPT !.exc = e]
Returned(n) == [NoResult EXCEPT !.val = <<n>>]

Call(op, name, axis, arg, r) ==
    [op |-> op, name |-> name, axis |-> axis, arg |-> arg,
     exc |-> r.exc, scalar |-> r.scalar, val |-> r.val, den |-> r.den]

\* The write index left where it is.
NextIx_stays(ix, capacity) == ix % capacity

\* The write index moved on by two slots.
NextIx_skips(ix, capacity) == (ix + 2) % capacity

\* (ix + 1) % self._capacity
NextIx(ix, capacity) == (ix + 1) % capacity

\* The last n elements of s.
Window(s, n) == IF Len(s) <= n THEN s ELSE SubSeq(s, Len(s) - n + 1, Len(s))

Init ==
    /\ caller \in {"any", "doctest1d", "doctest2d"}
    /\ alive = FALSE
    /\ ctor = NoCtor
    /\ dtype = ""
    /\ shape = <<>>
    /\ _buffer = Constant(<<0>>, 0)
    /\ _capacity = 0
    /\ _ix = 0
    /\ last = Call("", "", AxisNone, NoArg, NoResult)
    /\ npushes = 0
    /\ hist = <<>>
    /\ filled = FALSE
    /\ reset_value = Str
    /\ fill_ix = 0
    /\ nsame = 0
    /\ MetricInit
    /\ ExplodingInit

\* RingBuffer(shape, fill_value, dtype)
__init__(sh, fill_value, dt) ==
    /\ ~alive
    /\ LET args == [shape |-> sh, fill_value |-> fill_value, dtype |-> dt]
       IN  \E a \in NpFull(sh, fill_value, dt) :
              /\ last' = Call("__init__", "", AxisNone, args, Raised(a.exc))
              /\ IF a.exc = ""
                 THEN /\ alive' = TRUE
                      /\ ctor' = args
                      /\ dtype' = dt
                      /\ shape' = a.shape
                      /\ _buffer' = a.buf
                      /\ _capacity' = a.shape[1]
                      /\ _ix' = 0
                      /\ reset_value' = fill_value
                 ELSE UNCHANGED <<alive, ctor, dtype, shape, _buffer, _capacity, _ix,
                                  reset_value>>
    /\ UNCHANGED <<caller, npushes, hist, filled, fill_ix, nsame>>

\* len(rb) returning the number of elements pushed so far.
len_counts_pushes ==
    /\ alive
    /\ last' = Call("__len__", "", AxisNone, NoArg, Returned(npushes))
    /\ UNCHANGED <<caller, alive, ctor, dtype, shape, _buffer, _capacity, _ix, npushes,
                   hist, filled, reset_value, fill_ix, nsame>>

\* len(rb)
__len__ ==
    /\ alive
    /\ last' = Call("__len__", "", AxisNone, NoArg, Returned(_capacity))
    /\ UNCHANGED <<caller, alive, ctor, dtype, shape, _buffer, _capacity, _ix, npushes,
                   hist, filled, reset_value, fill_ix, nsame>>

\* rb.fill(value) that also rewinds the write index.
fill_rewinds(value) ==
    /\ alive
    /\ \E a \in SetAll(_buffer, shape, dtype, value) :
          /\ _buffer' = a.buf
          /\ last' = Call("fill", "", AxisNone, Scalar(value), Raised(a.exc))
          /\ IF a.exc = ""
             THEN hist' = <<>> /\ filled' = TRUE /\ reset_value' = value /\ fill_ix' = _ix /\ _ix' = 0 /\ nsame' = 0
             ELSE UNCHANGED <<hist, filled, reset_value, fill_ix, _ix, nsame>>
    /\ UNCHANGED <<caller, alive, ctor, dtype, shape, _capacity, npushes>>

\* rb.fill(value) that also moves the write index on, as a push does.
fill_advances(value) ==
    /\ alive
    /\ \E a \in SetAll(_buffer, shape, dtype, value) :
          /\ _buffer' = a.buf
          /\ last' = Call("fill", "", AxisNone, Scalar(value), Raised(a.exc))
          /\ IF a.exc = ""
             THEN /\ hist' = <<>> /\ filled' = TRUE /\ reset_value' = value /\ fill_ix' = _ix /\ nsame' = 0
                  /\ _ix' = IF _capacity = 0 THEN 0 ELSE (_ix + 1) % _capacity
             ELSE UNCHANGED <<hist, filled, reset_value, fill_ix, nsame, _ix>>
    /\ UNCHANGED <<caller, alive, ctor, dtype, shape, _capacity, npushes>>

\* rb.fill(value)
fill(value) ==
    /\ alive
    /\ \E a \in SetAll(_buffer, shape, dtype, value) :
          /\ _buffer' = a.buf
          /\ last' = Call("fill", "", AxisNone, Scalar(value), Raised(a.exc))
          /\ IF a.exc = ""
             THEN hist' = <<>> /\ filled' = TRUE /\ reset_value' = value /\ fill_ix' = _ix /\ nsame' = 0
             ELSE UNCHANGED <<hist, filled, reset_value, fill_ix, nsame>>
    /\ UNCHANGED <<caller, alive, ctor, dtype, shape, _capacity, _ix, npushes>>

\* rb.push(element)
push(element) ==
    /\ alive
    /\ LET ix == _ix
       IN  \E a \in SetItem(_buffer, shape, dtype, ix, element) :
              /\ _buffer' = a.buf
              /\ last' = Call("push", "", AxisNone, element, Raised(a.exc))
              /\ IF a.exc = ""
                 THEN /\ _ix' = NextIx(ix, _capacity)
                      /\ npushes' = npushes + 1
                      /\ hist' = Window(Append(hist, element), _capacity)
                      /\ nsame' = IF a.buf = _buffer THEN IF nsame < _capacity THEN nsame + 1 ELSE nsame ELSE 0
                      /\ reset_value' = IF Len(hist') < _capacity THEN reset_value ELSE Str
                 ELSE UNCHANGED <<_ix, npushes, hist, nsame, reset_value>>
    /\ UNCHANGED <<caller, alive, ctor, dtype, shape, _capacity, filled, fill_ix>>

\* rb.<name>(axis) that rewinds the write index after reading.
reduction_rewinds(name, axis) ==
    /\ alive
    /\ last' = Call("reduction", name, axis, NoArg, method(name, _buffer, shape, axis))
    /\ _ix' = 0
    /\ UNCHANGED <<caller, alive, ctor, dtype, shape, _buffer, _capacity, npushes,
                   hist, filled, reset_value, fill_ix, nsame>>

\* rb.<name>(axis), for one of the eight reductions
reduction(name, axis) ==
    /\ alive
    /\ last' = Call("reduction", name, axis, NoArg, method(name, _buffer, shape, axis))
    /\ UNCHANGED <<caller, alive, ctor, dtype, shape, _buffer, _capacity, _ix, npushes,
                   hist, filled, reset_value, fill_ix, nsame>>

\* What the caller passes: any program within the bounds, or the docstring's examples.
CtorArgs ==
    IF caller = "any"
    THEN {<<sh, fv, dt>> : sh \in Shapes, fv \in FillValues, dt \in Dtypes}
    ELSE {<<DocShape(caller), Num(0), "i8">>}

FillArgs == IF caller = "any" THEN FillValues ELSE {}

PushArgs ==
    IF caller = "any"
    THEN IF npushes < MaxPushes THEN Elements ELSE {}
    ELSE IF npushes < DocPushes(caller) THEN {DocElement(caller, npushes)} ELSE {}

ReductionArgs == IF caller = "any" THEN Reductions ELSE DocReductions

Next ==
    \/ \E a \in CtorArgs :
          __init__(a[1], a[2], a[3]) /\ UNCHANGED <<metricvars, explodingvars>>
    \/ __len__ /\ UNCHANGED <<metricvars, explodingvars>>
    \/ \E value \in FillArgs : fill(value) /\ UNCHANGED <<metricvars, explodingvars>>
    \/ \E element \in PushArgs :
          push(element) /\ UNCHANGED <<metricvars, explodingvars>>
    \/ \E name \in ReductionArgs, axis \in Axes :
          reduction(name, axis) /\ UNCHANGED <<metricvars, explodingvars>>

Spec == Init /\ [][Next]_vars

---------------------------------------------------------------------------
\* The Returns metric.

\* (self._previous_total_returns + 1) / current_total_returns - 1
PeriodReturn(previous, current) == Ratio(previous + Den - current, current)

\* Returns._compute(key, packet, ledger, dt), with ledger.portfolio.returns = returns.
\* The set of outcomes: the exception raised ("" for none), the number of reads of
\* the ledger, and the object and the packet afterwards.
_compute(key, pkt, returns, dt) ==
    LET current_total_returns == returns
        todays_returns == PeriodReturn(_previous_total_returns, current_total_returns)
        raise(e) == [exc |-> e, reads |-> 1, daily |-> _daily_returns,
                     previous |-> _previous_total_returns, packet |-> pkt]
        \* the right-hand side is computed first, then the targets from the left:
        \* the item of self._daily_returns before todays_returns
        assigned ==
            IF _daily_returns.none
            THEN raise("TypeError")
            ELSE [exc |-> "", reads |-> 1,
                  daily |-> [_daily_returns EXCEPT !.data =
                               [t \in DOMAIN @ \cup {Normalize(dt)} |->
                                   IF t = Normalize(dt) THEN todays_returns ELSE @[t]]],
                  previous |-> current_total_returns,
                  packet |-> [pkt EXCEPT ![key].returns = todays_returns,
                                         !.cumulative_perf.returns =
                                             Ratio(current_total_returns, Den)]]
    IN  IF current_total_returns = 0
        \* a Python number raises; a numpy float gives inf with a warning
        THEN {raise("ZeroDivisionError"), assigned}
        ELSE {assigned}

\* Returns()
Returns_init ==
    /\ ~metric_alive
    /\ metric_alive' = TRUE
    /\ _daily_returns' = NoSeries
    /\ _benchmark_returns' = NoSeries
    /\ _previous_total_returns' = 0
    /\ metric_last' = MetricCall("__init__", NoTime, NoTime, 0, NoTime, 0, "")
    /\ UNCHANGED <<daily_returns, benchmark_returns, packet>>

\* metric.start_of_simulation(first_session, last_session, benchmark_source)
start_of_simulation(first_session, last_session, benchmark_source) ==
    /\ metric_alive
    /\ benchmark_returns' = get_range(benchmark_source, first_session, last_session)
    /\ daily_returns' = Series(NaN, DOMAIN benchmark_returns'.data)
    /\ _previous_total_returns' = 0
    /\ metric_last' = MetricCall("start_of_simulation", first_session, last_session, 0,
                                 NoTime, 0, "")
    /\ UNCHANGED <<metric_alive, _daily_returns, _benchmark_returns, packet>>

\* The call self._compute(key, packet, ledger, dt) of op, on a packet as passed.
end_of(op, key, returns, dt) ==
    /\ metric_alive
    /\ \E a \in _compute(key, NewPacket, returns, dt) :
          /\ _daily_returns' = a.daily
          /\ _previous_total_returns' = a.previous
          /\ packet' = a.packet
          /\ metric_last' = MetricCall(op, NoTime, NoTime, returns, dt, a.reads, a.exc)
    /\ UNCHANGED <<metric_alive, _benchmark_returns, daily_returns, benchmark_returns>>

\* metric.end_of_minute(packet, ledger, dt, data_portal)
end_of_minute(returns, dt) == end_of("end_of_minute", "minute_perf", returns, dt)

\* metric.end_of_day(packet, ledger, dt, data_portal)
end_of_day(returns, dt) == end_of("end_of_day", "daily_perf", returns, dt)

ReturnsInit == Init /\ caller = "any"

ReturnsNext ==
    \/ Returns_init /\ UNCHANGED <<rbvars, explodingvars>>
    \/ \E first_session \in Sessions, last_session \in Sessions, b \in BenchmarkReturns :
          /\ start_of_simulation(first_session, last_session, b)
          /\ UNCHANGED <<rbvars, explodingvars>>
    \/ \E returns \in LedgerReturns, dt \in StepTimes :
          end_of_minute(returns, dt) /\ UNCHANGED <<rbvars, explodingvars>>
    \/ \E returns \in LedgerReturns, dt \in StepTimes :
          end_of_day(returns, dt) /\ UNCHANGED <<rbvars, explodingvars>>

ReturnsSpec == ReturnsInit /\ [][ReturnsNext]_vars

---------------------------------------------------------------------------
\* ExplodingObject.

\* __getattr__ with the name of the class in the place of the object's name.
__getattr___names_class(self, attr) ==
    AttrRaised("AttributeError",
               <<"attempted to access attribute ">> \o Repr(attr)
                   \o <<" of ExplodingObject ">> \o Repr("ExplodingObject"))

\* ExplodingObject.__getattr__(self, attr)
__getattr__(self, attr) ==
    AttrRaised("AttributeError",
               <<"attempted to access attribute ">> \o Repr(attr)
                   \o <<" of ExplodingObject ">> \o Repr(self._name))

\* obj.attr: the instance, then the class and object, then __getattr__.
GetAttribute(self, attr) ==
    IF attr \in DOMAIN self THEN AttrReturned(<<self[attr]>>)
    ELSE IF attr \in ClassAttrs \cup ObjectAttrs
    THEN AttrReturned(<<"ExplodingObject", attr>>)
    ELSE __getattr__(self, attr)

\* ExplodingObject(name)
ExplodingObject_init(name) ==
    /\ Len(objects) < MaxObjects
    /\ objects' = Append(objects, [_name |-> name])
    /\ UNCHANGED attr_last

\* objects[i].attr
access(i, attr) ==
    /\ attr_last' = AttrAccess(i, attr, GetAttribute(objects[i], attr))
    /\ UNCHANGED objects

ExplodingSpecInit == Init /\ caller = "any"

ExplodingNext ==
    \/ \E name \in ObjectNames :
          ExplodingObject_init(name) /\ UNCHANGED <<rbvars, metricvars>>
    \/ \E i \in 1 .. Len(objects), attr \in AttrNames :
          access(i, attr) /\ UNCHANGED <<rbvars, metricvars>>

ExplodingSpec == ExplodingSpecInit /\ [][ExplodingNext]_vars

---------------------------------------------------------------------------
\* Properties.

CallReturned(op) == last.op = op /\ last.exc = ""

\* C1: len(rb) is the first component of the shape the buffer was constructed with,
\* in every state after a construction that returned, whatever pushes, fills and
\* reductions were made: the capacity, not the number of pushes.
C1_LenIsFirstDim ==
    alive =>
        /\ _capacity = ctor.shape.dims[1]
        /\ last.op = "__len__" => last.exc = "" /\ last.val = <<ctor.shape.dims[1]>>

\* len was called after a fill and after a number of pushes that is not the capacity.
C1_Witness ==
    /\ alive
    /\ CallReturned("__len__")
    /\ filled
    /\ npushes > _capacity
    /\ _capacity > 0

\* The result r is the number n.
IsNumber(r, n) == r.exc = "" /\ r.scalar /\ r.val = <<n * r.den>>

\* The result r is the vector ns.
IsVector(r, ns) ==
    r.exc = "" /\ ~r.scalar /\ r.val = [k \in 1 .. Len(ns) |-> ns[k] * r.den]

Count(s, x) == Cardinality({k \in 1 .. Len(s) : s[k] = x})

\* s and t hold the same values the same number of times.
SameBag(s, t) ==
    /\ Len(s) = Len(t)
    /\ \A k \in 1 .. Len(s) : Count(s, s[k]) = Count(t, s[k])

\* The number h converted to dtype dt: for int64 the integer part (the fraction is
\* dropped, toward zero), for float64 the number itself.
Converted(h, dt) ==
    IF dt = "i8"
    THEN CHOOSE t \in -h .. h \cup h .. -h :
            /\ t % Den = 0
            /\ IF h >= 0 THEN t <= h /\ h < t + Den ELSE h <= t /\ t - Den < h
    ELSE h

\* The values of the elements in hist, as the caller passed them.
PushedValues == [k \in 1 .. Len(hist) |-> hist[k].xs[1].v]

\* A one-dimensional buffer that took at least capacity pushes and no fill.
C2_Case == alive /\ Len(shape) = 1 /\ ~filled /\ npushes >= _capacity

\* The docstring's first example: 0, 1, 2, 3, 4 pushed gives sum 10, 5 pushed after
\* them gives sum 15, min 1 and max 5.
C2_Docstring ==
    caller = "doctest1d" /\ alive =>
        /\ npushes = DocRange => IsNumber(method("sum", _buffer, shape, AxisNone), 10)
        /\ npushes = DocRange + 1 =>
              /\ IsNumber(method("sum", _buffer, shape, AxisNone), 15)
              /\ IsNumber(method("min", _buffer, shape, AxisNone), 1)
              /\ IsNumber(method("max", _buffer, shape, AxisNone), 5)

\* C2 as stated: after n >= c pushes and no fill into a one-dimensional buffer of
\* capacity c, the stored values are, as a multiset, the last c values pushed.
C2_Original ==
    /\ C2_Case => SameBag(Flat(_buffer, shape), PushedValues)
    /\ C2_Docstring

\* C2 as amended: after n >= c pushes and no fill into a one-dimensional buffer of
\* capacity c, the stored values are, as a multiset, the last c values pushed, each
\* converted to the buffer's dtype; the docstring's sums, min and max are as stated.
C2_LastPushesStored ==
    /\ C2_Case =>
          SameBag(Flat(_buffer, shape),
                  [k \in 1 .. Len(hist) |-> Converted(PushedValues[k], dtype)])
    /\ C2_Docstring

\* More pushes than the capacity, of values that differ, the oldest evicted.
C2_Witness ==
    /\ C2_Case
    /\ caller = "any"
    /\ _capacity = 2
    /\ npushes > _capacity
    /\ _buffer[0] # _buffer[1]

\* The row of m components that holds element, a scalar or a list of m or of one
\* component, with conv applied to each component.
RowOf(element, m, conv(_)) ==
    [j \in 1 .. m |->
        conv(IF element.nd = 1 /\ Len(element.xs) = m THEN element.xs[j].v
             ELSE element.xs[1].v)]

AsPassed(h) == h
AsStored(h) == Converted(h, dtype)

\* A step of a push that returned: only such a step counts a push.
PushReturns == npushes' = npushes + 1

\* A push that returns leaves every slot but the one at the write index as it was,
\* and the capacity and the shape; the write index becomes (i + 1) mod capacity.
PushFrame ==
    /\ DOMAIN _buffer' = DOMAIN _buffer
    /\ \A k \in DOMAIN _buffer : k # _ix => _buffer'[k] = _buffer[k]
    /\ _capacity' = _capacity
    /\ shape' = shape
    /\ _ix' = (_ix + 1) % _capacity

\* C3 as stated: a push that returns makes the slot at the write index i the
\* element, changes no other slot, nor the capacity, nor the shape, and makes the
\* write index (i + 1) mod capacity.
C3_Original ==
    [][PushReturns =>
          /\ _buffer'[_ix] = RowOf(last'.arg, PayloadLen(shape), AsPassed)
          /\ PushFrame]_vars

\* C3 as amended: a push that returns makes the slot at the write index i the
\* element converted to the buffer's dtype (a scalar or a list of one component
\* spread over the payload), changes no other slot, nor the capacity, nor the
\* shape, and makes the write index (i + 1) mod capacity.
C3_PushWritesOneSlot ==
    [][PushReturns =>
          /\ _buffer'[_ix] = RowOf(last'.arg, PayloadLen(shape), AsStored)
          /\ PushFrame]_vars

\* A push into the last slot of a buffer of two rows returned: the write index
\* wrapped, and the other slot holds something else.
C3_Witness ==
    /\ CallReturned("push")
    /\ Len(shape) = 2
    /\ _capacity = 2
    /\ _ix = 0
    /\ _buffer[1] = RowOf(last.arg, PayloadLen(shape), AsStored)
    /\ _buffer[0] # _buffer[1]

\* C4: in every state of a constructed buffer the write index is an index of
\* axis 0: 0 <= _ix < capacity.
C4_CursorInRange == alive => 0 <= _ix /\ _ix < _capacity

\* C5 as stated: when __init__ has returned, every slot is fill_value, the write
\* index is 0 and the capacity is the first component of shape.
C5_Original ==
    CallReturned("__init__") =>
        /\ DOMAIN _buffer = 0 .. last.arg.shape.dims[1] - 1
        /\ \A i \in DOMAIN _buffer : \A j \in 1 .. PayloadLen(shape) :
              last.arg.fill_value.t = "num" /\ _buffer[i][j] = last.arg.fill_value.v
        /\ _ix = 0
        /\ _capacity = last.arg.shape.dims[1]

\* C5 as amended: when __init__ has returned, every slot is fill_value converted to
\* the buffer's dtype, the write index is 0 and the capacity is the first component
\* of shape.
C5_ConstructedFilled ==
    CallReturned("__init__") =>
        /\ DOMAIN _buffer = 0 .. last.arg.shape.dims[1] - 1
        /\ \A i \in DOMAIN _buffer : \A j \in 1 .. PayloadLen(shape) :
              /\ last.arg.fill_value.t = "num"
              /\ _buffer[i][j] = Converted(last.arg.fill_value.v, dtype)
              /\ DOMAIN _buffer[i] = 1 .. PayloadLen(shape)
        /\ _ix = 0
        /\ _capacity = last.arg.shape.dims[1]

\* A two-dimensional int64 buffer was constructed with fill value 1.5.
C5_Witness ==
    /\ CallReturned("__init__")
    /\ dtype = "i8"
    /\ last.arg.shape = TupleShape(<<2, 2>>)
    /\ last.arg.fill_value = Num(Den + 1)

\* A step of a fill that returned.
FillReturns == last'.op = "fill" /\ last'.exc = "" /\ vars' # vars

\* A fill leaves the write index, the capacity and the shape as they were.
FillFrame ==
    /\ DOMAIN _buffer' = DOMAIN _buffer
    /\ _ix' = _ix
    /\ _capacity' = _capacity
    /\ shape' = shape

\* The first push that returns after a fill writes the slot at the index the write
\* index had when fill was called.
PushAfterFill ==
    PushReturns /\ filled /\ hist = <<>> =>
        /\ _ix = fill_ix
        /\ _buffer'[fill_ix] = RowOf(last'.arg, PayloadLen(shape), AsStored)
        /\ \A k \in DOMAIN _buffer : k # fill_ix => _buffer'[k] = _buffer[k]

\* C6 as stated: a fill that returns makes every component of every slot the value
\* and leaves the write index, the capacity and the shape as they were; the next
\* push writes at the write index of before the fill.
C6_Original ==
    [][/\ FillReturns =>
             /\ \A i \in DOMAIN _buffer' : \A j \in 1 .. PayloadLen(shape) :
                   last'.arg.xs[1].t = "num" /\ _buffer'[i][j] = last'.arg.xs[1].v
             /\ FillFrame
       /\ PushAfterFill]_vars

\* C6 as amended: a fill that returns makes every component of every slot the
\* value converted to the buffer's dtype and leaves the write index, the capacity
\* and the shape as they were; the next push writes at the write index of before
\* the fill, not at slot 0.
C6_FillKeepsCursor ==
    [][/\ FillReturns =>
             /\ \A i \in DOMAIN _buffer' :
                   _buffer'[i] = RowOf(last'.arg, PayloadLen(shape), AsStored)
             /\ Size(shape) > 0 => last'.arg.xs[1].t = "num"
             /\ FillFrame
       /\ PushAfterFill]_vars

\* A fill was made with the write index at 1, and the push after it wrote slot 1.
C6_Witness ==
    /\ CallReturned("push")
    /\ filled
    /\ Len(hist) = 1
    /\ fill_ix = 1
    /\ _ix = 0
    /\ _buffer[1] # _buffer[0]

InvalidAxis == "ValueError: cannot perform reduction along non-primary axis"

\* C7: each of the eight reductions, called with an axis other than None and 0,
\* raises the ValueError of the axis check and returns nothing, whatever the number
\* of dimensions of the buffer; called with None or 0 it never raises that error.
C7_AxisRejected ==
    last.op = "reduction" =>
        IF last.axis = AxisNone \/ last.axis = Axis(0)
        THEN last.exc # InvalidAxis
        ELSE last.exc = InvalidAxis /\ last.val = <<>>

\* The docstring's rb2d.sum(axis=1) on the (5, 2) buffer raised.
C7_Witness ==
    /\ caller = "doctest2d"
    /\ npushes = DocRange
    /\ last.op = "reduction"
    /\ last.name = "sum"
    /\ last.axis = Axis(1)
    /\ last.exc = InvalidAxis

\* The storage read from row r on, wrapping around: row r first.
Rotated(buf, shp, r) == [i \in 0 .. shp[1] - 1 |-> buf[(i + r) % shp[1]]]

\* Every whole-buffer reduction gives on the storage as it lies what it gives on
\* the storage read from any other row on.
C8_LayoutIrrelevant ==
    alive =>
        \A name \in ReductionArgs : \A r \in 0 .. _capacity - 1 :
            method(name, _buffer, shape, AxisNone)
                = method(name, Rotated(_buffer, shape, r), shape, AxisNone)

\* A push that returns and writes into the slot at the write index the value the
\* slot holds: the values pushed again in their order.
PushAgain ==
    PushReturns /\ _buffer[_ix] = RowOf(last'.arg, PayloadLen(shape), AsStored)

\* C8: the whole-buffer reductions depend on the stored values only, not on the
\* write index nor on the slot a value lies in: pushing the stored values again in
\* their order moves the write index and leaves the result of every whole-buffer
\* reduction as it was, and reading the storage from any row on gives the same.
C8_ReductionIgnoresRotation ==
    /\ []C8_LayoutIrrelevant
    /\ [][PushAgain =>
             /\ _ix' = (_ix + 1) % _capacity
             /\ \A name \in ReductionArgs :
                   method(name, _buffer', shape', AxisNone)
                       = method(name, _buffer, shape, AxisNone)]_vars

\* Two values that differ were pushed and the first was pushed again: the write
\* index is in the middle of the buffer.
C8_Witness ==
    /\ CallReturned("push")
    /\ ~filled
    /\ _capacity = 2
    /\ npushes > _capacity
    /\ nsame >= 1
    /\ _ix = 1
    /\ _buffer[0] # _buffer[1]

RECURSIVE SumCells(_)
\* The sum of the stored components at the <<row, component>> pairs in cells.
SumCells(cells) ==
    IF cells = {} THEN 0
    ELSE LET c == CHOOSE c \in cells : TRUE
         IN  _buffer[c[1]][c[2]] + SumCells(cells \ {c})

Rows == 0 .. _capacity - 1

\* C9: on a two-dimensional buffer of shape (c, m) sum(axis=0) is a vector of m
\* components, the j-th the sum of component j of all c slots, and sum() is the sum
\* of all c * m stored numbers; on a one-dimensional buffer both are that sum.  After
\* the docstring's pushes sum() is 205 and sum(axis=0) is [100, 105].
C9_SumAlongAxes ==
    alive =>
        LET m == PayloadLen(shape)
            total == method("sum", _buffer, shape, AxisNone)
            along == method("sum", _buffer, shape, Axis(0))
        IN  /\ total = [exc |-> "", scalar |-> TRUE, den |-> Den,
                        val |-> <<SumCells(Rows \X (1 .. m))>>]
            /\ IF Len(shape) = 1
               THEN along = total
               ELSE along = [exc |-> "", scalar |-> FALSE, den |-> Den,
                             val |-> [j \in 1 .. m |-> SumCells(Rows \X {j})]]
            /\ last.op = "reduction" /\ last.name = "sum" =>
                  /\ last.axis = AxisNone =>
                        Call("reduction", "sum", AxisNone, NoArg, total) = last
                  /\ last.axis = Axis(0) =>
                        Call("reduction", "sum", Axis(0), NoArg, along) = last
            /\ caller = "doctest2d" /\ npushes = DocRange =>
                  IsNumber(total, 205) /\ IsVector(along, <<100, 105>>)

\* The docstring's rb2d.sum(axis=0) returned.
C9_Witness ==
    /\ caller = "doctest2d"
    /\ npushes = DocRange
    /\ CallReturned("reduction")
    /\ last.name = "sum"
    /\ last.axis = Axis(0)
    /\ Len(last.val) = DocWidth

\* C10: a call of push, fill or a reduction that raises leaves the storage and the
\* write index as they were.
C10_FailureChangesNothing ==
    [][alive /\ last'.exc # "" /\ vars' # vars =>
          _buffer' = _buffer /\ _ix' = _ix]_vars

\* The shape of a pushed element: () for a scalar, (n) for a list of n components.
ElementShape(element) == IF element.nd = 0 THEN <<>> ELSE <<Len(element.xs)>>

\* C11: a push of an element whose shape is not the payload shape of the buffer (the
\* shape without its first component) raises and stores nothing: a scalar or a list
\* of one component into a buffer of payload shape (m), m > 1, and a list into a
\* one-dimensional buffer among them.
C11_ShapeMismatchRejected ==
    [][last'.op = "push" /\ ElementShape(last'.arg) # Tail(shape) =>
          last'.exc # "" /\ _buffer' = _buffer /\ _ix' = _ix]_vars

\* C12: __init__ raises when a component of shape is zero or negative, so that the
\* capacity of every constructed buffer is at least 1.
C12_NonPositiveRejected ==
    /\ last.op = "__init__"
         /\ (\E k \in 1 .. Len(last.arg.shape.dims) : last.arg.shape.dims[k] <= 0)
         => last.exc # ""
    /\ alive => _capacity >= 1

\* The values a call of __init__, fill or push was given.
SuppliedTo(c) ==
    IF c.op = "__init__" THEN {c.arg.fill_value}
    ELSE {c.arg.xs[k] : k \in 1 .. Len(c.arg.xs)}

\* x is a number of the value set of dtype dt.
Representable(x, dt) == x.t = "num" /\ (dt = "i8" => x.v % Den = 0)

\* A step of a call that is given values to store.
StoringCall == last'.op \in {"__init__", "fill", "push"}

\* Every component the step wrote, or created, is conv of a number the call was given.
WrittenFrom(conv(_)) ==
    \A i \in DOMAIN _buffer' : \A j \in DOMAIN _buffer'[i] :
        i \notin DOMAIN _buffer \/ _buffer'[i][j] # _buffer[i][j] =>
            \E x \in SuppliedTo(last') : x.t = "num" /\ _buffer'[i][j] = conv(x.v)

\* Every stored number is of the value set of the buffer's dtype.
StoredInDtype ==
    alive => \A i \in DOMAIN _buffer : \A j \in DOMAIN _buffer[i] :
                Representable(Num(_buffer[i][j]), dtype)

AsStoredNext(h) == Converted(h, dtype')

FillAgain ==
    /\ last.op = "fill" /\ last.exc = ""
    /\ last'.op = "fill" /\ last'.exc = ""
    /\ last'.arg = last.arg

\* C14: fill(x) right after a fill(x) that returned leaves the storage and the write
\* index as the first fill left them, and so sum() and mean() as they were.
C14_FillIdempotent ==
    [][FillAgain =>
          /\ _buffer' = _buffer
          /\ _ix' = _ix
          /\ \A name \in {"sum", "mean"} :
                method(name, _buffer', shape', AxisNone)
                    = method(name, _buffer, shape, AxisNone)]_vars

\* fill(1.5) returned on a two-dimensional int64 buffer after one push: every slot
\* holds 1 and the write index is 1, after one such fill and after any number more.
C14_Witness ==
    /\ CallReturned("fill")
    /\ last.arg = Scalar(Num(Den + 1))
    /\ shape = <<2, 2>>
    /\ dtype = "i8"
    /\ hist = <<>>
    /\ npushes = 1
    /\ _ix = 1
    /\ \A i \in DOMAIN _buffer : _buffer[i] = <<Den, Den>>

\* C16: a reduction called with axis None or 0 leaves every slot and the write index
\* as they were, and what it returned is what the same call returns as long as no
\* push or fill is made: the result of the last call is the result on the storage
\* as it is.
C16_ReductionsRead ==
    /\ [](last.op = "reduction" =>
             last = Call("reduction", last.name, last.axis, NoArg,
                         method(last.name, _buffer, shape, last.axis)))
    /\ [][last'.op = "reduction" /\ last'.axis \in {AxisNone, Axis(0)} =>
             /\ _buffer' = _buffer
             /\ _ix' = _ix
             /\ last.op = "reduction" /\ last.name = last'.name /\ last.axis = last'.axis
                   => last' = last]_vars

\* std(axis=0) returned on a two-dimensional buffer of slots that differ, with the
\* write index in the middle.
C16_Witness ==
    /\ CallReturned("reduction")
    /\ last.name = "std"
    /\ last.axis = Axis(0)
    /\ shape = <<2, 2>>
    /\ _ix = 1
    /\ _buffer[0] # _buffer[1]
    /\ Len(last.val) = 2

\* C17: the write index is the number of pushes that returned since __init__, modulo
\* the capacity (on a buffer of capacity 0 no push returns and the index is 0); a
\* fill, a reduction, len and a push that raises leave the index as it was, so after
\* m * capacity pushes the index is 0 again.
C17_CursorCountsPushes ==
    /\ [](alive =>
             IF _capacity = 0 THEN _ix = 0 /\ npushes = 0
             ELSE _ix = npushes % _capacity)
    /\ [][alive /\ _ix' # _ix => last'.op = "push" /\ last'.exc = ""]_vars

\* Two pushes into a buffer of capacity 2 returned, a fill was made, and a push
\* raised: the write index is 0.
C17_Witness ==
    /\ alive
    /\ _capacity = 2
    /\ npushes = 2
    /\ _ix = 0
    /\ filled
    /\ last.op = "push"
    /\ last.exc # ""

\* The slot the j-th element of hist was written to: the slots behind the write
\* index, the newest last.
SlotOf(j) == (_ix + _capacity - Len(hist) + j - 1) % _capacity

\* The row every slot held after the last fill that returned (after __init__ before).
ResetRow == [k \in 1 .. PayloadLen(shape) |-> Converted(reset_value.v, dtype)]

\* The elements pushed since the last reset lie behind the write index in the order
\* they were pushed, the newest min(k, capacity) of them, and every other slot holds
\* the value of the reset.
FifoLayout ==
    alive /\ _capacity > 0 =>
        /\ \A j \in 1 .. Len(hist) :
              _buffer[SlotOf(j)] = RowOf(hist[j], PayloadLen(shape), AsStored)
        /\ \A i \in Rows \ {SlotOf(j) : j \in 1 .. Len(hist)} :
              reset_value.t = "num" /\ _buffer[i] = ResetRow

\* C15: counting the pushes that returned since the last fill that returned (since
\* __init__ before it), the k-th push overwrites a slot that holds the fill value when
\* k <= capacity, and the element of push k - capacity, the oldest still stored,
\* otherwise, wherever the write index was at the fill; after k < capacity pushes the
\* storage is these k elements and capacity - k times the fill value.  Elements and
\* fill value are taken as converted to the dtype.
C15_FifoSinceReset ==
    /\ []FifoLayout
    /\ [][PushReturns =>
             _buffer[_ix] = IF Len(hist) < _capacity THEN ResetRow
                            ELSE RowOf(hist[1], PayloadLen(shape), AsStored)]_vars

\* start_of_simulation has been called on the metric.
Started == ~daily_returns.none

\* C18: after start_of_simulation the stored previous total returns are 0, and every
\* end_of_minute and end_of_day call made after it returns without an exception, has
\* read ledger.portfolio.returns once, has recorded the period return in the daily
\* series at the normalized time of the step and in packet[key]['returns'], has set
\* packet['cumulative_perf']['returns'] to the value read, and leaves the stored
\* previous total returns equal to the value read.
C18_ComputeRecords ==
    /\ metric_last.op = "start_of_simulation" => _previous_total_returns = 0
    /\ metric_last.op \in {"end_of_minute", "end_of_day"} /\ Started =>
          LET key == IF metric_last.op = "end_of_minute" THEN "minute_perf"
                     ELSE "daily_perf"
          IN  /\ metric_last.exc = ""
              /\ metric_last.reads = 1
              /\ ~_daily_returns.none
              /\ Normalize(metric_last.dt) \in DOMAIN _daily_returns.data
              /\ ~packet[key].returns.none
              /\ packet[key].returns = _daily_returns.data[Normalize(metric_last.dt)]
              /\ packet.cumulative_perf.returns = Ratio(metric_last.returns, Den)
              /\ _previous_total_returns = metric_last.returns

\* The message names the attribute and, after it, the object's name.
NamesBoth(msg, attr, name) ==
    \E k \in 1 .. Len(msg) : msg[k] = attr /\ \E l \in k + 1 .. Len(msg) : msg[l] = name

\* C19 as stated: every access to an attribute of an ExplodingObject raises an
\* AttributeError whose message names the attribute and the object's name, and
\* returns no value.
C19_Original ==
    attr_last.obj # 0 =>
        /\ attr_last.exc = "AttributeError"
        /\ NamesBoth(attr_last.msg, attr_last.attr, objects[attr_last.obj]._name)
        /\ attr_last.value = <<>>

\* C19 as amended: an access to an attribute that the lookup does not find on the
\* instance (_name), on the class (__init__, __getattr__, __doc__) or on object
\* (__class__) raises an AttributeError whose message names the attribute and the
\* name of the object accessed, and returns no value; an access to one of those
\* returns its value, for _name the name the object was constructed with.
C19_MissingAttributeExplodes ==
    attr_last.obj # 0 =>
        LET name == objects[attr_last.obj]._name
        IN  IF attr_last.attr \in {"_name", "__init__", "__getattr__", "__doc__",
                                   "__class__"}
            THEN /\ attr_last.exc = ""
                 /\ attr_last.value # <<>>
                 /\ attr_last.attr = "_name" => attr_last.value = <<name>>
            ELSE /\ attr_last.exc = "AttributeError"
                 /\ NamesBoth(attr_last.msg, attr_last.attr, name)
                 /\ attr_last.msg[1] = "attempted to access attribute "
                 /\ attr_last.value = <<>>

\* The attribute returns of the second of two objects of different names was
\* accessed and the access raised.
C19_Witness ==
    /\ Len(objects) = 2
    /\ objects[1]._name # objects[2]._name
    /\ attr_last.obj = 2
    /\ attr_last.attr = "returns"
    /\ attr_last.exc = "AttributeError"

====
